---- MODULE Spec2Model ----
(***************************************************************************)
(* Model of the hierarchical GDP-per-capita / population providers         *)
(* (src/src/Python/gdppc.py, src/src/Python/pop.py) and of the space-time  *)
(* cache that wraps a provider (src/src/Python/provider.py).               *)
(*                                                                         *)
(* Numbers are exact rationals <<numerator, denominator>> in lowest terms  *)
(* with a positive denominator; <<0, 0>> stands for not-a-number.  Keys    *)
(* (ISO codes, hierids) are sequences of characters, so that hierid[:3]    *)
(* is a real prefix operation.  A pandas object is a record                *)
(* [rows, shape0]: a DataFrame has shape0 = number of rows, a Series       *)
(* holding one row has shape0 = number of its columns.                     *)
(***************************************************************************)
EXTENDS Integers, Sequences, FiniteSets, TLC

VARIABLES
    startyear,            \* BySpaceProvider.startyear
    stopyear,             \* HierarchicalGDPpcProvider.stopyear
    df_baseline_this,     \* baseline rows of this model/scenario/start year
    df_baseline_anyiam,   \* iso -> median baseline row over all models
    baseline_global,      \* median baseline row over everything
    df_growth_this,       \* growth rows of this model/scenario
    df_growth_anyiam,     \* iso -> per-year median growth rows over all models
    growth_global,        \* per-year median growth rows of this model
    df_nightlights,       \* rows [hierid, gdppc_ratio]
    df_ir_pops,           \* rows [hierid, year, pop] kept by the population provider
    iso_memo,             \* lru_cache of get_iso_timeseries: iso -> series
    pop_iso_memo,         \* lru_cache of the population provider's get_iso_timeseries
    cache,                \* BySpaceTimeFromSpaceProvider.cache: region -> series
    returned,             \* fine key -> the series get_timeseries first returned for it
    lastOp                \* the last call made, what it returned and what it executed

vars == <<startyear, stopyear, df_baseline_this, df_baseline_anyiam, baseline_global,
          df_growth_this, df_growth_anyiam, growth_global, df_nightlights, df_ir_pops,
          iso_memo, pop_iso_memo, cache, returned, lastOp>>

tables == <<startyear, stopyear, df_baseline_this, df_baseline_anyiam, baseline_global,
            df_growth_this, df_growth_anyiam, growth_global, df_nightlights, df_ir_pops>>

----------------------------------------------------------------------------
(* Bounds of the model. *)

\* longest horizon stopyear - startyear
MaxSpan == 6
\* longest raw growth table drawn for the series-builder specification
MaxGrowthRows == 2
\* longest specific-tier table drawn for the resolver specification
MaxTierRows == 2
\* how many years below startyear a point query may lie
MaxBelow == 5

----------------------------------------------------------------------------
(* Floating point numbers as exact rationals. *)

RECURSIVE Gcd(_, _)
Gcd(a, b) == IF b = 0 THEN a ELSE Gcd(b, a % b)

Abs(n) == IF n < 0 THEN -n ELSE n

NaN == <<0, 0>>

IsNaN(x) == x[2] = 0

Rat(n, d) == LET g == Gcd(Abs(n), d) IN <<n \div g, d \div g>>

Num(n) == <<n, 1>>

Mul(x, y) == IF IsNaN(x) \/ IsNaN(y) THEN NaN ELSE Rat(x[1] * y[1], x[2] * y[2])

Less(x, y) == x[1] * y[2] < y[1] * x[2]

Mean2(x, y) == Rat(x[1] * y[2] + y[1] * x[2], 2 * x[2] * y[2])

\* int(a / b) for b > 0: Python's and numpy's conversion truncates toward zero
TruncDiv(a, b) == IF a >= 0 THEN a \div b ELSE -((-a) \div b)

RECURSIVE Insert(_, _)
Insert(x, s) ==
    IF s = <<>> THEN <<x>>
    ELSE IF Less(s[1], x) THEN <<s[1]>> \o Insert(x, Tail(s))
    ELSE <<x>> \o s

RECURSIVE SortNums(_)
SortNums(s) == IF s = <<>> THEN <<>> ELSE Insert(s[1], SortNums(Tail(s)))

\* pandas median of a column: the middle value, or the mean of the two middle ones
Median(s) ==
    LET t == SortNums(s)
        n == Len(t)
    IN  IF n = 0 THEN NaN
        ELSE IF n % 2 = 1 THEN t[(n + 1) \div 2]
        ELSE Mean2(t[n \div 2], t[n \div 2 + 1])

RECURSIVE SortedSeq(_)
SortedSeq(S) ==
    IF S = {} THEN <<>>
    ELSE LET m == CHOOSE x \in S : \A y \in S : x <= y
         IN  <<m>> \o SortedSeq(S \ {m})

----------------------------------------------------------------------------
(* pandas objects. *)

Frame(rows) == [rows |-> rows, shape0 |-> Len(rows)]

RowSeries(row, ncols) == [rows |-> <<row>>, shape0 |-> ncols]

----------------------------------------------------------------------------
(* Configuration of the provider. *)

iam == "low"

ssp == "SSP3"

PeriodLength == 5

DefaultStartyear == 2010

\* the factor applied when the nightlight ratio is not-a-number or zero (0.8)
DegenerateFactor == Rat(4, 5)

----------------------------------------------------------------------------
(* HierarchicalGDPpcProvider.__init__: the three tiers of each table.      *)
(* A raw baseline row is [model, scenario, iso, year, value], a raw growth *)
(* row is [model, scenario, iso, year, growth].  A median is taken over    *)
(* the numeric columns of a group; the grouping columns become the index.  *)

\* df_growth['yearindex'] = np.int_((df_growth.year - startyear) / 5)
WithYearindex(df, start) ==
    [i \in 1..Len(df) |->
        [model |-> df[i].model, scenario |-> df[i].scenario, iso |-> df[i].iso,
         year |-> df[i].year, growth |-> df[i].growth,
         yearindex |-> Num(TruncDiv(df[i].year - start, PeriodLength))]]

BaselineThis(df, start) ==
    Frame(SelectSeq(df, LAMBDA r : r.model = iam /\ r.scenario = ssp /\ r.year = start))

\* .groupby('iso').median(): one row of medians per iso, indexed by iso
BaselineAnyiam(df, start) ==
    LET sel == SelectSeq(df, LAMBDA r : r.scenario = ssp /\ r.year = start)
    IN  [k \in {sel[i].iso : i \in 1..Len(sel)} |->
            LET g == SelectSeq(sel, LAMBDA r : r.iso = k)
            IN  RowSeries([year |-> Median([i \in 1..Len(g) |-> Num(g[i].year)]),
                           value |-> Median([i \in 1..Len(g) |-> g[i].value])], 2)]

\* .select_dtypes("number").median(): a Series of the medians of year and value
BaselineGlobal(df, start) ==
    LET sel == SelectSeq(df, LAMBDA r : r.scenario = ssp /\ r.year = start)
    IN  RowSeries([year |-> Median([i \in 1..Len(sel) |-> Num(sel[i].year)]),
                   value |-> Median([i \in 1..Len(sel) |-> sel[i].value])], 2)

GrowthThis(df, start) ==
    Frame(SelectSeq(WithYearindex(df, start),
                    LAMBDA r : r.model = iam /\ r.scenario = ssp))

\* one row of medians per year of the rows `sel`, in ascending order of year
MedianByYear(sel) ==
    LET years == SortedSeq({sel[i].year : i \in 1..Len(sel)})
    IN  [j \in 1..Len(years) |->
            LET g == SelectSeq(sel, LAMBDA r : r.year = years[j])
            IN  [year |-> years[j],
                 yearindex |-> Median([i \in 1..Len(g) |-> g[i].yearindex]),
                 growth |-> Median([i \in 1..Len(g) |-> g[i].growth])]]

\* .groupby(['iso', 'year']).median(): indexed by (iso, year); .loc[iso] is a frame
GrowthAnyiam(df, start) ==
    LET sel == SelectSeq(WithYearindex(df, start), LAMBDA r : r.scenario = ssp)
    IN  [k \in {sel[i].iso : i \in 1..Len(sel)} |->
            Frame(MedianByYear(SelectSeq(sel, LAMBDA r : r.iso = k)))]

\* .groupby(['year']).median() of the rows of this model and scenario
GrowthGlobal(df, start) ==
    Frame(MedianByYear(SelectSeq(WithYearindex(df, start),
                                 LAMBDA r : r.scenario = ssp /\ r.model = iam)))

----------------------------------------------------------------------------
(* The fallback resolver. *)

\* a resolver that takes the aggregated selection without looking at its size
ResolveUnchecked(iso, df_this, df_anyiam, df_global) ==
    LET df == Frame(SelectSeq(df_this.rows, LAMBDA r : r.iso = iso))
    IN  IF df.shape0 > 0 THEN df
        ELSE IF iso \in DOMAIN df_anyiam THEN df_anyiam[iso]
        ELSE df_global

\* the highest priority data available: this model, then any model, then global
_get_best_iso_available(iso, df_this, df_anyiam, df_global) ==
    LET df == Frame(SelectSeq(df_this.rows, LAMBDA r : r.iso = iso))
    IN  IF df.shape0 > 0 THEN df
        ELSE IF iso \in DOMAIN df_anyiam /\ df_anyiam[iso].shape0 > 0
             THEN df_anyiam[iso]
        ELSE df_global

----------------------------------------------------------------------------
(* The series builder. *)

Raised == [status |-> "raised", series |-> <<>>]

Returned(series) == [status |-> "ok", series |-> series]

\* df_growth.loc[df_growth.yearindex == yearindex].growth.values
GrowthRates(df_growth, yearindex) ==
    LET sel == SelectSeq(df_growth.rows, LAMBDA r : r.yearindex = Num(yearindex))
    IN  [i \in 1..Len(sel) |-> sel[i].growth]

\* a builder that looks the factor up by the current year, not by the year before
RECURSIVE GrowThisYear(_, _, _)
GrowThisYear(gdppcs, df_growth, year) ==
    IF year > stopyear THEN Returned(gdppcs)
    ELSE LET yearindex == TruncDiv(year - startyear, PeriodLength)
             growthrate == GrowthRates(df_growth, yearindex)
         IN  IF Len(growthrate) # 1 THEN Raised
             ELSE GrowThisYear(Append(gdppcs, Mul(gdppcs[Len(gdppcs)], growthrate[1])),
                               df_growth, year + 1)

\* a builder that appends not-a-number where no factor is found
RECURSIVE GrowPoisoned(_, _, _)
GrowPoisoned(gdppcs, df_growth, year) ==
    IF year > stopyear THEN Returned(gdppcs)
    ELSE LET yearindex == TruncDiv(year - 1 - startyear, PeriodLength)
             growthrate == GrowthRates(df_growth, yearindex)
         IN  IF Len(growthrate) > 1 THEN Raised
             ELSE GrowPoisoned(Append(gdppcs, IF Len(growthrate) = 0 THEN NaN
                                              ELSE Mul(gdppcs[Len(gdppcs)], growthrate[1])),
                               df_growth, year + 1)

\* a builder that takes the first of several factors
RECURSIVE GrowFirst(_, _, _)
GrowFirst(gdppcs, df_growth, year) ==
    IF year > stopyear THEN Returned(gdppcs)
    ELSE LET yearindex == TruncDiv(year - 1 - startyear, PeriodLength)
             growthrate == GrowthRates(df_growth, yearindex)
         IN  IF Len(growthrate) = 0 THEN Raised
             ELSE GrowFirst(Append(gdppcs, Mul(gdppcs[Len(gdppcs)], growthrate[1])),
                            df_growth, year + 1)

\* the loop over range(startyear + 1, stopyear + 1), from `year` on;
\* ndarray.item() raises unless the array holds exactly one element
RECURSIVE Grow(_, _, _)
Grow(gdppcs, df_growth, year) ==
    IF year > stopyear THEN Returned(gdppcs)
    ELSE LET yearindex == TruncDiv(year - 1 - startyear, PeriodLength)
             growthrate == GrowthRates(df_growth, yearindex)
             new_gdppc == [i \in 1..Len(growthrate) |->
                              Mul(gdppcs[Len(gdppcs)], growthrate[i])]
         IN  IF Len(new_gdppc) # 1 THEN Raised
             ELSE Grow(Append(gdppcs, new_gdppc[1]), df_growth, year + 1)

\* the body of get_iso_timeseries, run on a miss of its lru_cache
IsoBody(iso) ==
    LET df_baseline == _get_best_iso_available(iso, df_baseline_this,
                                               df_baseline_anyiam, baseline_global)
        baseline == df_baseline.rows[1].value
        df_growth == _get_best_iso_available(iso, df_growth_this,
                                             df_growth_anyiam, growth_global)
    IN  Grow(<<baseline>>, df_growth, startyear + 1)

\* a get_iso_timeseries that runs its body on every call
IsoUnmemoized(memo, iso) ==
    LET r == IsoBody(iso)
    IN  [res |-> r,
         memo |-> IF r.status = "ok" /\ iso \notin DOMAIN memo
                  THEN memo @@ (iso :> r.series) ELSE memo,
         ran |-> TRUE]

\* @lru_cache(maxsize=None): a stored series is returned without running the
\* body; a call that raises stores nothing
get_iso_timeseries(memo, iso) ==
    IF iso \in DOMAIN memo
    THEN [res |-> Returned(memo[iso]), memo |-> memo, ran |-> FALSE]
    ELSE LET r == IsoBody(iso)
         IN  [res |-> r,
              memo |-> IF r.status = "ok" THEN memo @@ (iso :> r.series) ELSE memo,
              ran |-> TRUE]

----------------------------------------------------------------------------
(* The economic provider's get_timeseries. *)

\* hierid[:3]
Prefix3(hierid) == SubSeq(hierid, 1, IF Len(hierid) < 3 THEN Len(hierid) ELSE 3)

Scale(factor, series) == [i \in 1..Len(series) |-> Mul(factor, series[i])]

\* df_nightlights.loc[df_nightlights.hierid == hierid].gdppc_ratio
RatioOf(hierid) ==
    LET sel == SelectSeq(df_nightlights, LAMBDA r : r.hierid = hierid)
    IN  [i \in 1..Len(sel) |-> sel[i].gdppc_ratio]

\* an adjustment that treats a ratio of zero like any other ratio
AdjustNanOnly(ratio, iso_gdppcs) ==
    IF Len(ratio) = 0 THEN iso_gdppcs
    ELSE IF IsNaN(ratio[1]) THEN Scale(DegenerateFactor, iso_gdppcs)
    ELSE Scale(ratio[1], iso_gdppcs)

\* what get_timeseries makes of the coarse series
Adjust(ratio, iso_gdppcs) ==
    IF Len(ratio) = 0 THEN iso_gdppcs
    ELSE IF IsNaN(ratio[1]) \/ ratio[1] = Num(0) THEN Scale(DegenerateFactor, iso_gdppcs)
    ELSE Scale(ratio[1], iso_gdppcs)

get_timeseries(memo, hierid) ==
    LET c == get_iso_timeseries(memo, Prefix3(hierid))
        ratio == RatioOf(hierid)
    IN  [res |-> IF c.res.status = "ok"
                 THEN Returned(Adjust(ratio, c.res.series)) ELSE c.res,
         memo |-> c.memo,
         ran |-> c.ran,
         scaled |-> c.res.status = "ok" /\ Len(ratio) > 0]

----------------------------------------------------------------------------
(* Keys and calls. *)

USA == <<"U", "S", "A">>

CAN == <<"C", "A", "N">>

MEX == <<"M", "E", "X">>

Isos == {USA, CAN, MEX}

\* the set of sequences over S of length at most n
SeqsUpTo(S, n) == UNION {[1..k -> S] : k \in 0..n}

NoOp == [op |-> "none", key |-> <<>>, time |-> 0, status |-> "ok", series |-> <<>>,
         value |-> NaN, frame |-> Frame(<<>>),
         ran |-> FALSE, scaled |-> FALSE, queried |-> FALSE]

\* a provider and a cache right after construction, over the tiers of the raw tables
Constructed(df_baseline, df_growth, nightlights, ir_pops, start, stop) ==
    /\ startyear = start
    /\ stopyear = stop
    /\ df_baseline_this = BaselineThis(df_baseline, start)
    /\ df_baseline_anyiam = BaselineAnyiam(df_baseline, start)
    /\ baseline_global = BaselineGlobal(df_baseline, start)
    /\ df_growth_this = GrowthThis(df_growth, start)
    /\ df_growth_anyiam = GrowthAnyiam(df_growth, start)
    /\ growth_global = GrowthGlobal(df_growth, start)
    /\ df_nightlights = nightlights
    /\ df_ir_pops = ir_pops
    /\ iso_memo = <<>>
    /\ pop_iso_memo = <<>>
    /\ cache = <<>>
    /\ returned = <<>>
    /\ lastOp = NoOp

----------------------------------------------------------------------------
(* Specification of the fallback resolver alone: the three tiers are drawn *)
(* from bounded sets and the resolver is applied to them.                  *)

TierRows ==
    {[model |-> iam, scenario |-> ssp, iso |-> k, year |-> DefaultStartyear,
      value |-> Num(v)] : k \in {USA, CAN}, v \in {100, 200}}

MedianRows == {[year |-> Num(DefaultStartyear), value |-> Num(v)] : v \in {30, 40}}

\* what .loc[iso] of an aggregated table can be: a row, a frame, or nothing
Selections ==
    {RowSeries(r, 2) : r \in MedianRows} \cup {Frame(<<>>)}
        \cup {Frame(<<r, r>>) : r \in MedianRows}

InitResolve ==
    /\ startyear = DefaultStartyear
    /\ stopyear = DefaultStartyear
    /\ df_baseline_this \in {Frame(t) : t \in SeqsUpTo(TierRows, MaxTierRows)}
    /\ \E index \in SUBSET {USA, CAN} : df_baseline_anyiam \in [index -> Selections]
    /\ baseline_global = RowSeries([year |-> Num(DefaultStartyear), value |-> Num(7)], 2)
    /\ df_growth_this = Frame(<<>>)
    /\ df_growth_anyiam = <<>>
    /\ growth_global = Frame(<<>>)
    /\ df_nightlights = <<>>
    /\ df_ir_pops = <<>>
    /\ iso_memo = <<>>
    /\ pop_iso_memo = <<>>
    /\ cache = <<>>
    /\ returned = <<>>
    /\ lastOp = NoOp

Resolve(iso) ==
    /\ lastOp' = [NoOp EXCEPT !.op = "resolve", !.key = iso,
                              !.frame = _get_best_iso_available(iso, df_baseline_this,
                                            df_baseline_anyiam, baseline_global)]
    /\ UNCHANGED <<tables, iso_memo, pop_iso_memo, cache, returned>>

NextResolve == \E iso \in Isos : Resolve(iso)

SpecResolve == InitResolve /\ [][NextResolve]_vars

----------------------------------------------------------------------------
(* Specification of the series builder alone: the raw growth table is      *)
(* drawn from a bounded set, the provider is constructed over it and       *)
(* get_iso_timeseries is called.                                           *)

GrowthOf(model, year) ==
    IF model = iam
    THEN (IF year < DefaultStartyear THEN 2 ELSE IF year = DefaultStartyear THEN 3 ELSE 5)
    ELSE (IF year < DefaultStartyear THEN 4 ELSE IF year = DefaultStartyear THEN 7 ELSE 9)

GrowthRow(model, iso, year) ==
    [model |-> model, scenario |-> ssp, iso |-> iso, year |-> year,
     growth |-> Num(GrowthOf(model, year))]

BuildGrowthRows ==
    {GrowthRow(m, USA, y) : m \in {iam, "high"},
        y \in {DefaultStartyear - 2, DefaultStartyear, DefaultStartyear + PeriodLength}}

BaselineRow(model, iso, year, v) ==
    [model |-> model, scenario |-> ssp, iso |-> iso, year |-> year, value |-> Num(v)]

InitBuild ==
    \E start \in {DefaultStartyear, DefaultStartyear + 2} :
    \E stop \in start..(start + MaxSpan) :
    \E df_growth \in SeqsUpTo(BuildGrowthRows, MaxGrowthRows) :
        Constructed(<<BaselineRow(iam, USA, start, 100)>>, df_growth, <<>>, <<>>,
                    start, stop)

IsoTimeseries(iso) ==
    LET c == get_iso_timeseries(iso_memo, iso)
    IN  /\ iso_memo' = c.memo
        /\ lastOp' = [NoOp EXCEPT !.op = "get_iso_timeseries", !.key = iso,
                                  !.status = c.res.status, !.series = c.res.series,
                                  !.ran = c.ran]
        /\ UNCHANGED <<tables, pop_iso_memo, cache, returned>>

NextBuild == \E iso \in {USA, CAN} : IsoTimeseries(iso)

SpecBuild == InitBuild /\ [][NextBuild]_vars

----------------------------------------------------------------------------
(* The space-time cache, BySpaceTimeFromSpaceProvider. *)

\* a store that keeps only the entry it writes
StoreOnly(c, region, series) == [k \in {region} |-> series]

\* self.cache[region] = ...
Store(c, region, series) == [k \in DOMAIN c \cup {region} |->
                                IF k = region THEN series ELSE c[k]]

\* a lookup without the clamp: a negative index counts from the end of the series
ValueAtUnclamped(series, time) ==
    LET i == IF time < startyear THEN Len(series) + (time - startyear) + 1
             ELSE time - startyear + 1
    IN  IF i < 1 \/ i > Len(series) THEN [status |-> "raised", value |-> NaN]
        ELSE [status |-> "ok", value |-> series[i]]

\* lines 37-41 of get_value: below startyear the first entry, else the entry at
\* time - startyear, an IndexError past the end of the series
ValueAt(series, time) ==
    IF time < startyear
    THEN (IF Len(series) = 0 THEN [status |-> "raised", value |-> NaN]
          ELSE [status |-> "ok", value |-> series[1]])
    ELSE IF time - startyear + 1 > Len(series) THEN [status |-> "raised", value |-> NaN]
    ELSE [status |-> "ok", value |-> series[time - startyear + 1]]

\* the record of the first series returned for each fine key
Remember(res, hierid) ==
    IF res.status = "ok" /\ hierid \notin DOMAIN returned
    THEN returned @@ (hierid :> res.series) ELSE returned

\* HierarchicalGDPpcProvider.get_timeseries called on the provider itself
ProviderGetTimeseries(hierid) ==
    LET c == get_timeseries(iso_memo, hierid)
    IN  /\ iso_memo' = c.memo
        /\ returned' = Remember(c.res, hierid)
        /\ lastOp' = [NoOp EXCEPT !.op = "provider.get_timeseries", !.key = hierid,
                                  !.status = c.res.status, !.series = c.res.series,
                                  !.ran = c.ran, !.scaled = c.scaled]
        /\ UNCHANGED <<tables, pop_iso_memo, cache>>

CacheGetValue(region, time) ==
    IF region \in DOMAIN cache
    THEN LET v == ValueAt(cache[region], time)
         IN  /\ lastOp' = [NoOp EXCEPT !.op = "cache.get_value", !.key = region,
                                       !.time = time, !.status = v.status,
                                       !.value = v.value]
             /\ UNCHANGED <<tables, iso_memo, pop_iso_memo, cache, returned>>
    ELSE LET c == get_timeseries(iso_memo, region)
             v == IF c.res.status = "ok" THEN ValueAt(c.res.series, time)
                  ELSE [status |-> "raised", value |-> NaN]
         IN  /\ iso_memo' = c.memo
             /\ returned' = Remember(c.res, region)
             /\ cache' = IF c.res.status = "ok" THEN Store(cache, region, c.res.series)
                         ELSE cache
             /\ lastOp' = [NoOp EXCEPT !.op = "cache.get_value", !.key = region,
                                       !.time = time, !.status = v.status,
                                       !.value = v.value, !.ran = c.ran,
                                       !.scaled = c.scaled, !.queried = TRUE]
             /\ UNCHANGED <<tables, pop_iso_memo>>

\* a get_timeseries that also stores what the provider returned
CacheGetTimeseriesStoring(region) ==
    LET c == get_timeseries(iso_memo, region)
    IN  /\ iso_memo' = c.memo
        /\ returned' = Remember(c.res, region)
        /\ cache' = IF c.res.status = "ok" THEN Store(cache, region, c.res.series)
                    ELSE cache
        /\ lastOp' = [NoOp EXCEPT !.op = "cache.get_timeseries", !.key = region,
                                  !.status = c.res.status, !.series = c.res.series,
                                  !.ran = c.ran, !.scaled = c.scaled, !.queried = TRUE]
        /\ UNCHANGED <<tables, pop_iso_memo>>

CacheGetTimeseries(region) ==
    LET c == get_timeseries(iso_memo, region)
    IN  /\ iso_memo' = c.memo
        /\ returned' = Remember(c.res, region)
        /\ lastOp' = [NoOp EXCEPT !.op = "cache.get_timeseries", !.key = region,
                                  !.status = c.res.status, !.series = c.res.series,
                                  !.ran = c.ran, !.scaled = c.scaled, !.queried = TRUE]
        /\ UNCHANGED <<tables, pop_iso_memo, cache>>

CacheGetStartyear ==
    /\ lastOp' = [NoOp EXCEPT !.op = "cache.get_startyear", !.value = Num(startyear)]
    /\ UNCHANGED <<tables, iso_memo, pop_iso_memo, cache, returned>>

CacheReset ==
    /\ cache' = <<>>
    /\ lastOp' = [NoOp EXCEPT !.op = "cache.reset"]
    /\ UNCHANGED <<tables, iso_memo, pop_iso_memo, returned>>

----------------------------------------------------------------------------
(* Specification of a provider wrapped in a cache.  The raw tables are     *)
(* drawn from small families: a complete table, and tables with a row      *)
(* missing or added.                                                       *)

USA1 == USA \o <<".", "1">>

CAN1 == CAN \o <<".", "1">>

Hierids == {USA1, CAN1, MEX}

Half == Rat(1, 2)

NightlightTables ==
    { <<>>,
      <<[hierid |-> USA1, gdppc_ratio |-> Half], [hierid |-> CAN1, gdppc_ratio |-> NaN]>>,
      <<[hierid |-> USA1, gdppc_ratio |-> Num(0)], [hierid |-> USA1, gdppc_ratio |-> Num(3)]>>,
      <<[hierid |-> MEX, gdppc_ratio |-> Num(2)], [hierid |-> CAN1, gdppc_ratio |-> Half]>> }

BaselineFull(start) ==
    << BaselineRow(iam, USA, start, 100), BaselineRow("high", USA, start, 300),
       BaselineRow("high", CAN, start, 60), BaselineRow("mid", CAN, start, 80),
       BaselineRow(iam, USA, start + PeriodLength, 999),
       [BaselineRow(iam, USA, start, 555) EXCEPT !.scenario = "SSP1"] >>

\* the full table, the table without this model's row, the table without any row of USA
BaselineTables(start) ==
    {BaselineFull(start), Tail(BaselineFull(start)), Tail(Tail(BaselineFull(start)))}

GrowthFull(start) ==
    << GrowthRow(iam, USA, start), GrowthRow(iam, USA, start + PeriodLength),
       GrowthRow("high", CAN, start), GrowthRow("high", CAN, start + PeriodLength),
       [GrowthRow(iam, CAN, start) EXCEPT !.scenario = "SSP1"] >>

GrowthTables(start) ==
    { GrowthFull(start),
      <<GrowthFull(start)[1]>> \o SubSeq(GrowthFull(start), 3, Len(GrowthFull(start))),
      <<GrowthRow(iam, USA, start - 2)>> \o GrowthFull(start) }

Init ==
    \E stop \in {DefaultStartyear, DefaultStartyear + MaxSpan} :
    \E df_baseline \in BaselineTables(DefaultStartyear) :
    \E df_growth \in GrowthTables(DefaultStartyear) :
    \E nightlights \in NightlightTables :
        Constructed(df_baseline, df_growth, nightlights, <<>>, DefaultStartyear, stop)

\* the years a point query is made for: below the range, its two ends, and past it
Times == {startyear - MaxBelow, startyear - 1, startyear, stopyear, stopyear + 1}

Next ==
    \/ \E hierid \in Hierids : ProviderGetTimeseries(hierid)
    \/ \E region \in Hierids : \E time \in Times : CacheGetValue(region, time)
    \/ \E region \in Hierids : CacheGetTimeseries(region)
    \/ CacheGetStartyear
    \/ CacheReset

Spec == Init /\ [][Next]_vars


----------------------------------------------------------------------------
(* The population provider, HierarchicalPopulationProvider.  Its           *)
(* _get_best_iso_available, get_timeseries and get_iso_timeseries are the  *)
(* text of the economic provider's; they read the fields of the same       *)
(* names.  df_ir_pops is stored by __init__ and read by no method.         *)

Pop_get_iso_timeseries(memo, iso) ==
    IF iso \in DOMAIN memo
    THEN [res |-> Returned(memo[iso]), memo |-> memo, ran |-> FALSE]
    ELSE LET df_baseline == _get_best_iso_available(iso, df_baseline_this,
                                                    df_baseline_anyiam, baseline_global)
             baseline == df_baseline.rows[1].value
             df_growth == _get_best_iso_available(iso, df_growth_this,
                                                  df_growth_anyiam, growth_global)
             r == Grow(<<baseline>>, df_growth, startyear + 1)
         IN  [res |-> r,
              memo |-> IF r.status = "ok" THEN memo @@ (iso :> r.series) ELSE memo,
              ran |-> TRUE]

Pop_get_timeseries(memo, hierid) ==
    LET c == Pop_get_iso_timeseries(memo, Prefix3(hierid))
        ratio == RatioOf(hierid)
    IN  [res |-> IF c.res.status # "ok" THEN c.res
                 ELSE IF Len(ratio) = 0 THEN Returned(c.res.series)
                 ELSE IF IsNaN(ratio[1]) \/ ratio[1] = Num(0)
                      THEN Returned(Scale(DegenerateFactor, c.res.series))
                 ELSE Returned(Scale(ratio[1], c.res.series)),
         memo |-> c.memo,
         ran |-> c.ran,
         scaled |-> c.res.status = "ok" /\ Len(ratio) > 0]

PopGetTimeseries(hierid) ==
    LET c == Pop_get_timeseries(pop_iso_memo, hierid)
    IN  /\ pop_iso_memo' = c.memo
        /\ lastOp' = [NoOp EXCEPT !.op = "pop.get_timeseries", !.key = hierid,
                                  !.status = c.res.status, !.series = c.res.series,
                                  !.ran = c.ran, !.scaled = c.scaled]
        /\ UNCHANGED <<tables, iso_memo, cache, returned>>

IrPops(year) ==
    << [hierid |-> USA1, year |-> year, pop |-> Num(10)],
       [hierid |-> CAN1, year |-> year, pop |-> Num(20)] >>

InitPop ==
    \E stop \in {DefaultStartyear, DefaultStartyear + MaxSpan} :
    \E df_baseline \in BaselineTables(DefaultStartyear) :
    \E df_growth \in GrowthTables(DefaultStartyear) :
    \E nightlights \in NightlightTables :
        Constructed(df_baseline, df_growth, nightlights, IrPops(DefaultStartyear),
                    DefaultStartyear, stop)

NextPop == \E hierid \in Hierids : PopGetTimeseries(hierid)

SpecPop == InitPop /\ [][NextPop]_vars

----------------------------------------------------------------------------
(* Properties of the fallback resolver, under SpecResolve. *)

\* the rows of the specific baseline tier whose key is iso
SpecificRows(iso) == SelectSeq(df_baseline_this.rows, LAMBDA r : r.iso = iso)

\* the aggregated baseline tier has the key in its index and a non-empty selection
AggregatedHas(iso) ==
    iso \in DOMAIN df_baseline_anyiam /\ df_baseline_anyiam[iso].shape0 > 0

(* C1: the resolver returns the first non-empty source in priority order:  *)
(* the matching rows of the specific tier if there is at least one; else   *)
(* the aggregated selection if the key is in the aggregated index and the  *)
(* selection is not empty; else the global table, unfiltered.              *)
C1_ResolverPriority ==
    lastOp.op = "resolve" =>
        LET iso == lastOp.key
        IN  /\ SpecificRows(iso) # <<>> =>
                /\ lastOp.frame.rows = SpecificRows(iso)
                /\ lastOp.frame.shape0 = Len(SpecificRows(iso))
                /\ \A j \in 1..Len(lastOp.frame.rows) : lastOp.frame.rows[j].iso = iso
            /\ (SpecificRows(iso) = <<>> /\ AggregatedHas(iso)) =>
                lastOp.frame = df_baseline_anyiam[iso]
            /\ (SpecificRows(iso) = <<>> /\ ~AggregatedHas(iso)) =>
                lastOp.frame = baseline_global

\* the resolver has passed over a non-empty specific tier that lacks the key and over
\* an empty aggregated selection for the key, and has returned the global row
C1_Witness ==
    /\ lastOp.op = "resolve"
    /\ df_baseline_this.shape0 > 0
    /\ SpecificRows(lastOp.key) = <<>>
    /\ lastOp.key \in DOMAIN df_baseline_anyiam
    /\ df_baseline_anyiam[lastOp.key].shape0 = 0
    /\ lastOp.frame = baseline_global

----------------------------------------------------------------------------
(* Properties of the series builder, under SpecBuild. *)

ResolvedGrowth(iso) ==
    _get_best_iso_available(iso, df_growth_this, df_growth_anyiam, growth_global)

ResolvedBaseline(iso) ==
    _get_best_iso_available(iso, df_baseline_this, df_baseline_anyiam,
                            baseline_global).rows[1].value

\* the period indices the years startyear+1 .. stopyear look up
PeriodsInRange ==
    IF stopyear > startyear THEN 0..((stopyear - 1 - startyear) \div PeriodLength) ELSE {}

\* the rows of the resolved growth table that carry period index p
RowsAt(iso, p) ==
    {j \in 1..Len(ResolvedGrowth(iso).rows) :
        ResolvedGrowth(iso).rows[j].yearindex = Num(p)}

FactorAt(iso, p) ==
    ResolvedGrowth(iso).rows[CHOOSE j \in RowsAt(iso, p) : \A k \in RowsAt(iso, p) : j <= k].growth

IsBuild == lastOp.op = "get_iso_timeseries"

\* the entry of the returned series for calendar year y
At(y) == lastOp.series[y - startyear + 1]

(* C2: with exactly one factor per period index in range, the builder      *)
(* returns stopyear - startyear + 1 values, the first the resolved         *)
(* baseline, each later one the one before it times the factor of period   *)
(* floor((y - 1 - startyear) / period length).                             *)
C2_Recurrence ==
    (IsBuild /\ \A p \in PeriodsInRange : Cardinality(RowsAt(lastOp.key, p)) = 1) =>
        /\ lastOp.status = "ok"
        /\ Len(lastOp.series) = stopyear - startyear + 1
        /\ At(startyear) = ResolvedBaseline(lastOp.key)
        /\ \A y \in (startyear + 1)..stopyear :
              At(y) = Mul(At(y - 1),
                          FactorAt(lastOp.key, (y - 1 - startyear) \div PeriodLength))

\* a series that runs into its second period has been built
C2_Witness ==
    /\ IsBuild
    /\ stopyear - startyear > PeriodLength
    /\ \A p \in PeriodsInRange : Cardinality(RowsAt(lastOp.key, p)) = 1
    /\ lastOp.status = "ok"
    /\ At(stopyear) # At(startyear + PeriodLength)

\* some period index in range has no row in the resolved growth table
SomePeriodMissing(iso) == \E p \in PeriodsInRange : RowsAt(iso, p) = {}

FirstMissing(iso) ==
    CHOOSE p \in PeriodsInRange :
        /\ RowsAt(iso, p) = {}
        /\ \A q \in PeriodsInRange : RowsAt(iso, q) = {} => p <= q

(* C9 as stated: with a period index missing, the builder does not raise   *)
(* and returns a full-length series that is not-a-number from the first    *)
(* year of the missing period on and computed normally before it.          *)
C9_PoisonedSeries ==
    (IsBuild /\ SomePeriodMissing(lastOp.key)) =>
        /\ lastOp.status = "ok"
        /\ Len(lastOp.series) = stopyear - startyear + 1
        /\ \A y \in (startyear + 1)..stopyear :
              IF (y - 1 - startyear) \div PeriodLength >= FirstMissing(lastOp.key)
              THEN IsNaN(At(y))
              ELSE At(y) = Mul(At(y - 1),
                               FactorAt(lastOp.key, (y - 1 - startyear) \div PeriodLength))

(* C9 as amended: with a period index in range missing from the resolved   *)
(* growth table, the builder raises: no series is returned and nothing is  *)
(* memoized for the key.                                                   *)
C9_MissingPeriodRaises ==
    (IsBuild /\ SomePeriodMissing(lastOp.key)) =>
        /\ lastOp.status = "raised"
        /\ lastOp.series = <<>>
        /\ lastOp.key \notin DOMAIN iso_memo

\* the first period has its factor, the second has none, and the call has raised
C9_Witness ==
    /\ IsBuild
    /\ stopyear - startyear > PeriodLength
    /\ Cardinality(RowsAt(lastOp.key, 0)) = 1
    /\ RowsAt(lastOp.key, 1) = {}
    /\ lastOp.status = "raised"

\* some period index in range has several rows in the resolved growth table
SomePeriodRepeated(iso) == \E p \in PeriodsInRange : Cardinality(RowsAt(iso, p)) > 1

(* C10 as stated: where several rows carry a period index, the factor of   *)
(* the first of them is used and the build completes.                      *)
C10_FirstRowUsed ==
    (IsBuild /\ SomePeriodRepeated(lastOp.key)
        /\ \A p \in PeriodsInRange : RowsAt(lastOp.key, p) # {}) =>
        /\ lastOp.status = "ok"
        /\ Len(lastOp.series) = stopyear - startyear + 1
        /\ \A y \in (startyear + 1)..stopyear :
              At(y) = Mul(At(y - 1),
                          FactorAt(lastOp.key, (y - 1 - startyear) \div PeriodLength))

(* C10 as amended: a build that completes has applied exactly one factor   *)
(* per period index; where several rows of the resolved growth table carry *)
(* a period index in range, no row is chosen: the builder raises, and      *)
(* nothing is memoized for the key.                                        *)
C10_RepeatedPeriodRaises ==
    /\ (IsBuild /\ lastOp.status = "ok") =>
          \A p \in PeriodsInRange : Cardinality(RowsAt(lastOp.key, p)) = 1
    /\ (IsBuild /\ SomePeriodRepeated(lastOp.key)) =>
          /\ lastOp.status = "raised"
          /\ lastOp.key \notin DOMAIN iso_memo

\* two input years, one of them before startyear, share period index 0 under the
\* truncating division, every period in range has a row, and the call has raised
C10_Witness ==
    /\ IsBuild
    /\ \A p \in PeriodsInRange : RowsAt(lastOp.key, p) # {}
    /\ \E j, k \in RowsAt(lastOp.key, 0) :
          /\ ResolvedGrowth(lastOp.key).rows[j].year < startyear
          /\ ResolvedGrowth(lastOp.key).rows[k].year >= startyear
    /\ lastOp.status = "raised"

----------------------------------------------------------------------------
(* Properties of the economic provider and of the cache, under Spec. *)

\* the last call was a get_timeseries, on the provider or through the cache
IsSeriesCall == lastOp.op \in {"provider.get_timeseries", "cache.get_timeseries"}

\* the last call reached the provider's get_timeseries
ProviderCalled == IsSeriesCall \/ (lastOp.op = "cache.get_value" /\ lastOp.queried)

CoarseKey(hierid) == <<hierid[1], hierid[2], hierid[3]>>

\* the rows of the adjustment table for a fine key
NightRows(hierid) == {j \in 1..Len(df_nightlights) : df_nightlights[j].hierid = hierid}

FirstRatio(hierid) ==
    df_nightlights[CHOOSE j \in NightRows(hierid) :
                       \A k \in NightRows(hierid) : j <= k].gdppc_ratio

(* C3: get_timeseries returns, elementwise over the coarse series of the   *)
(* key's 3-character prefix, the coarse series itself when the adjustment  *)
(* table has no row for the key, 0.8 times it when the ratio is            *)
(* not-a-number or zero, and ratio times it otherwise.                     *)
C3_Adjustment ==
    (IsSeriesCall /\ IsoBody(CoarseKey(lastOp.key)).status = "ok") =>
        LET coarse == IsoBody(CoarseKey(lastOp.key)).series
            h == lastOp.key
        IN  /\ lastOp.status = "ok"
            /\ Len(lastOp.series) = Len(coarse)
            /\ \A i \in 1..Len(coarse) :
                  lastOp.series[i] =
                      IF NightRows(h) = {} THEN coarse[i]
                      ELSE IF IsNaN(FirstRatio(h)) \/ FirstRatio(h) = Num(0)
                           THEN Mul(Rat(4, 5), coarse[i])
                      ELSE Mul(FirstRatio(h), coarse[i])

\* a series over several periods has been returned for a key whose ratio is zero
C3_Witness ==
    /\ IsSeriesCall
    /\ lastOp.status = "ok"
    /\ NightRows(lastOp.key) # {}
    /\ FirstRatio(lastOp.key) = Num(0)
    /\ Len(lastOp.series) > PeriodLength
    /\ ~IsNaN(lastOp.series[1])
    /\ lastOp.series[1] # Num(0)

(* C4: get_value returns the first entry of the region's series for a year *)
(* below startyear and series[year - startyear] for a year in              *)
(* startyear..stopyear, series being what the provider's get_timeseries    *)
(* returns for the region, whatever calls came before.                     *)
C4_PointQuery ==
    (lastOp.op = "cache.get_value"
        /\ get_timeseries(iso_memo, lastOp.key).res.status = "ok") =>
        LET series == get_timeseries(iso_memo, lastOp.key).res.series
        IN  /\ lastOp.time < startyear =>
                (lastOp.status = "ok" /\ lastOp.value = series[1])
            /\ (startyear <= lastOp.time /\ lastOp.time <= stopyear) =>
                (lastOp.status = "ok" /\ lastOp.value = series[lastOp.time - startyear + 1])

\* a year well below startyear has been answered from an entry stored by an earlier
\* call, with the first entry of a series whose later entries differ from it
C4_Witness ==
    /\ lastOp.op = "cache.get_value"
    /\ ~lastOp.queried
    /\ lastOp.time = startyear - MaxBelow
    /\ lastOp.status = "ok"
    /\ stopyear > startyear
    /\ lastOp.value = cache[lastOp.key][1]
    /\ \A i \in 2..Len(cache[lastOp.key]) : cache[lastOp.key][i] # lastOp.value

(* C5 as stated: a get_timeseries call for a fine key already requested    *)
(* returns the series computed before and computes nothing again.          *)
C5_FineKeyComputedOnce ==
    [][\A h \in Hierids :
          (h \in DOMAIN returned /\ IsSeriesCall' /\ lastOp'.key = h) =>
              /\ lastOp'.series = returned[h]
              /\ ~lastOp'.ran
              /\ ~lastOp'.scaled]_vars

(* C5 as amended: the memo is per coarse key.  The coarse series of a      *)
(* 3-character prefix is computed at most once and kept; a later           *)
(* get_timeseries call for a fine key already requested returns a series   *)
(* equal to the first one, and applies the fine key's adjustment again     *)
(* whenever the adjustment table has a row for the key.                    *)
C5_CoarseKeyComputedOnce ==
    [][/\ \A k \in DOMAIN iso_memo : k \in DOMAIN iso_memo' /\ iso_memo'[k] = iso_memo[k]
       /\ (ProviderCalled' /\ CoarseKey(lastOp'.key) \in DOMAIN iso_memo) => ~lastOp'.ran
       /\ \A h \in Hierids :
             (h \in DOMAIN returned /\ IsSeriesCall' /\ lastOp'.key = h) =>
                 /\ lastOp'.status = "ok"
                 /\ lastOp'.series = returned[h]
                 /\ ~lastOp'.ran
                 /\ lastOp'.scaled = (NightRows(h) # {})]_vars

\* the one fine key requested so far has been requested again: its coarse series came
\* from the memo and its adjustment was applied anew
C5_Witness ==
    /\ lastOp.op = "provider.get_timeseries"
    /\ DOMAIN returned = {lastOp.key}
    /\ DOMAIN cache = {}
    /\ lastOp.status = "ok"
    /\ ~lastOp.ran
    /\ lastOp.scaled
    /\ lastOp.series = returned[lastOp.key]

(* C6 as stated: no operation of the cache removes or overwrites an entry. *)
C6_EntryNeverEvicted ==
    [][\A r \in DOMAIN cache : r \in DOMAIN cache' /\ cache'[r] = cache[r]]_vars

(* C6 as amended: get_value, get_timeseries and get_startyear never remove *)
(* or overwrite an entry; reset removes every entry.                       *)
C6_EntryEvictedOnlyByReset ==
    [][/\ lastOp'.op # "cache.reset" =>
              \A r \in DOMAIN cache : r \in DOMAIN cache' /\ cache'[r] = cache[r]
       /\ lastOp'.op = "cache.reset" => DOMAIN cache' = {}]_vars

\* with two regions stored, a point query has been answered from the cache
C6_Witness ==
    /\ lastOp.op = "cache.get_value"
    /\ ~lastOp.queried
    /\ lastOp.status = "ok"
    /\ Cardinality(DOMAIN cache) >= 2

(* C7 as stated: after get_timeseries(region) has returned, the cache      *)
(* holds an entry for region.                                              *)
C7_GetTimeseriesPopulates ==
    (lastOp.op = "cache.get_timeseries" /\ lastOp.status = "ok") =>
        lastOp.key \in DOMAIN cache

(* C7 as amended: get_timeseries(region) returns what the wrapped provider *)
(* returns and leaves the cache as it was; a get_value for a region queries *)
(* the wrapped provider exactly when the region has no entry, also right   *)
(* after a get_timeseries for it.                                          *)
C7_GetTimeseriesBypasses ==
    [][/\ lastOp'.op = "cache.get_timeseries" =>
              /\ DOMAIN cache' = DOMAIN cache
              /\ \A r \in DOMAIN cache : cache'[r] = cache[r]
              /\ lastOp'.queried
              /\ lastOp'.status = get_timeseries(iso_memo, lastOp'.key).res.status
              /\ lastOp'.series = get_timeseries(iso_memo, lastOp'.key).res.series
       /\ lastOp'.op = "cache.get_value" =>
              lastOp'.queried = (lastOp'.key \notin DOMAIN cache)]_vars

\* get_timeseries has returned a series for a region and the cache has no entry for it
C7_Witness ==
    /\ lastOp.op = "cache.get_timeseries"
    /\ lastOp.status = "ok"
    /\ lastOp.key \notin DOMAIN cache
    /\ CoarseKey(lastOp.key) \in DOMAIN iso_memo

----------------------------------------------------------------------------
(* Properties of the population provider, under SpecPop. *)

\* the population of a fine key in the fine-granularity table, not-a-number if absent
FineBaseline(hierid) ==
    LET rows == SelectSeq(df_ir_pops, LAMBDA r : r.hierid = hierid)
    IN  IF rows = <<>> THEN NaN ELSE rows[1].pop

====
